---- MODULE Spec2Model ----
(***************************************************************************)
(* State-machine model of usr.bin/snmp/snmpc.c: the snmp(1) client         *)
(* commands get / getnext / bulkget (snmpc_get), walk / bulkwalk           *)
(* (snmpc_walk) and trap (snmpc_trap), run against an arbitrary agent.     *)
(*                                                                         *)
(* The agent is the environment: every reply (error-status, error-index,   *)
(* binding list) or transport failure is drawn nondeterministically.       *)
(* libutil's ber_* and the smi_* name resolution are not part of           *)
(* snmpc.c; they are modelled from their documented contract.              *)
(***************************************************************************)
EXTENDS Integers, Sequences, FiniteSets, TLC

---------------------------------------------------------------------------
\* Bounds of the model.
\* sub-identifiers range over 1..MaxSub
MaxSub == 2
\* longest OID an agent returns
MaxOidLen == 3
\* most bindings in one reply
MaxBatch == 2
\* the agent stops answering once n reaches this
MaxEmit == 3
\* nreq saturates here
MaxReq == 4
\* error-index values 0..MaxErrIndex
MaxErrIndex == 3
\* -Cn values 0..MaxNonRep
MaxNonRep == 3
\* most (oid, type, value) triples of a trap
MaxTriples == 2

---------------------------------------------------------------------------
\* Protocol constants (snmp.h).
SNMP_V1 == 0
SNMP_V2C == 1
SNMP_ERROR_NOSUCHNAME == 2
UnknownStatus == 19

\* char *mib = "mib_2";
mib == "mib_2"

---------------------------------------------------------------------------
\* OID model.

RECURSIVE SeqsUpTo(_, _)
SeqsUpTo(S, k) ==
    IF k = 0 THEN {<<>>}
    ELSE LET shorter == SeqsUpTo(S, k - 1)
         IN  shorter \cup {Append(s, x) : s \in {t \in shorter : Len(t) = k - 1}, x \in S}

\* struct ber_oid values with bo_n >= 1.
Oids == SeqsUpTo(1..MaxSub, MaxOidLen) \ {<<>>}

IsPrefix(a, b) == Len(a) <= Len(b) /\ SubSeq(b, 1, Len(a)) = a

\* First position where a and b differ (both at least that long).
RECURSIVE FirstDiff(_, _, _)
FirstDiff(a, b, i) == IF a[i] # b[i] THEN i ELSE FirstDiff(a, b, i + 1)

\* ber_oid_cmp(a, b): 0 identical, 2 b is a child of a, 1 b is a successor
\* of a, -1 b is a predecessor of a.
ber_oid_cmp(a, b) ==
    IF a = b THEN 0
    ELSE IF IsPrefix(a, b) THEN 2
    ELSE IF IsPrefix(b, a) THEN -1
    ELSE LET i == FirstDiff(a, b, 1)
         IN  IF a[i] < b[i] THEN 1 ELSE -1

\* smi_oid2string with numeric lookup: dotted decimal.
RECURSIVE smi_oid2string(_)
smi_oid2string(o) ==
    IF Len(o) = 1 THEN ToString(o[1])
    ELSE smi_oid2string(SubSeq(o, 1, Len(o) - 1)) \o "." \o ToString(o[Len(o)])

\* The OID the MIB name mib_2 stands for in the model.
MibOid == <<1, 1>>

\* smi_string2oid: ret = 0 and the OID, or ret = -1 for an unknown name.
smi_string2oid(s) ==
    IF s = mib THEN [ret |-> 0, oid |-> MibOid]
    ELSE IF \E o \in Oids : smi_oid2string(o) = s
         THEN [ret |-> 0, oid |-> CHOOSE o \in Oids : smi_oid2string(o) = s]
         ELSE [ret |-> -1, oid |-> <<>>]

---------------------------------------------------------------------------
\* Strings.  A command-line word is a string; the parsers read it character
\* by character, so every word the model uses is listed with its characters.

NUL == "NUL"    \* the terminating '\0'

RECURSIVE Str(_)
Str(cs) == IF cs = <<>> THEN "" ELSE cs[1] \o Str(Tail(cs))

Words ==
    { <<>>,
      <<"5">>, <<"9">>, <<"z">>, <<"a", "b">>, <<"z", "z">>, <<"f", "f">>,
      <<"-", "1">>, <<"-", "7">>, <<"1", "0", "0">>, <<"2", "5", "6">>,
      <<"1", "f", "f">>, <<"1", " ", "2">>, <<"1", ",", "2">>,
      <<"1", ",", ",", "2">>, <<" ", "3", "\t", "4">>,
      <<"0", " ", "7", " ", "1", "5">>,
      <<"d", "e", " ", "a", "d">>,
      <<"a", "\t", "0", "b", " ", " ", "7">>,
      <<"1", "5", " ", "0">>, <<"3", "\t", "3">>, <<"9", " ", "-", "1">>,
      <<"d", "e", " ", "a", "d", ",", " ", "b", "e", ",", "e", "f">>,
      <<"1", ".", "2">>, <<"1", ".", "1">>,
      <<"1", ".", "2", ".", "3", ".", "4">>,
      <<"1", ".", "2", ".", "3", ".", "2", "5", "6">>,
      <<"2", "1", "4", "7", "4", "8", "3", "6", "4", "8">>,
      <<"b", "o", "g", "u", "s">>,
      <<"a">>, <<"b">>, <<"c">>, <<"d">>, <<"i">>, <<"n">>, <<"o">>, <<"s">>,
      <<"t">>, <<"u">>, <<"x">>, <<"q">> }

\* The characters of a word.
Chars(w) == CHOOSE cs \in Words : Str(cs) = w

CharAt(cs, p) == IF p \in 1..Len(cs) THEN cs[p] ELSE NUL

IsSpace(c) == c \in {" ", "\t"}

\* Value of a digit character; 99 for a character that is no digit.
DigitVal(c) ==
    CASE c = "0" -> 0 [] c = "1" -> 1 [] c = "2" -> 2 [] c = "3" -> 3
      [] c = "4" -> 4 [] c = "5" -> 5 [] c = "6" -> 6 [] c = "7" -> 7
      [] c = "8" -> 8 [] c = "9" -> 9 [] c = "a" -> 10 [] c = "b" -> 11
      [] c = "c" -> 12 [] c = "d" -> 13 [] c = "e" -> 14 [] c = "f" -> 15
      [] OTHER -> 99

\* Byte value of a character (strdup copies the bytes of the word).
Ascii(c) ==
    CASE c = " " -> 32 [] c = "\t" -> 9 [] c = "," -> 44 [] c = "-" -> 45
      [] c = "." -> 46 [] c = "z" -> 122 [] c = "g" -> 103 [] c = "o" -> 111
      [] c = "s" -> 115 [] c = "u" -> 117
      [] DigitVal(c) <= 9 -> 48 + DigitVal(c)
      [] OTHER -> 87 + DigitVal(c)

RECURSIVE SkipSpace(_, _)
SkipSpace(cs, p) == IF IsSpace(CharAt(cs, p)) THEN SkipSpace(cs, p + 1) ELSE p

\* Numbers are exact up to 2^31 - 1 in magnitude; a longer digit string sets
\* "over" (the value is larger than that, and smaller than 2^63 for every
\* word of the model).
INT32_MAX == 2147483647

RECURSIVE ScanDigits(_, _, _, _, _)
ScanDigits(cs, p, base, acc, over) ==
    LET d == DigitVal(CharAt(cs, p))
    IN  IF d < base
        THEN IF over \/ acc > (INT32_MAX - d) \div base
             THEN ScanDigits(cs, p + 1, base, INT32_MAX, TRUE)
             ELSE ScanDigits(cs, p + 1, base, acc * base + d, FALSE)
        ELSE [val |-> acc, end |-> p, over |-> over]

\* strtoll(&cs[nptr], &endstr, base) for words without a 0x prefix: white
\* space, an optional sign, digits.  With no digits nothing is converted and
\* endstr is nptr.
Converted(nptr, sign, s2, d) ==
    IF d.end = s2 THEN [val |-> 0, end |-> nptr, over |-> FALSE]
    ELSE [val |-> IF sign = "-" THEN 0 - d.val ELSE d.val,
          end |-> d.end, over |-> d.over]
Signed(cs, nptr, base, sign, s2) ==
    Converted(nptr, sign, s2, ScanDigits(cs, s2, base, 0, FALSE))
Unspaced(cs, nptr, base, s1) ==
    Signed(cs, nptr, base, CharAt(cs, s1),
           IF CharAt(cs, s1) \in {"-", "+"} THEN s1 + 1 ELSE s1)
strtoll(cs, nptr, base) == Unspaced(cs, nptr, base, SkipSpace(cs, nptr))

\* Limits handed to strtonum: a number, or a 64-bit limit no word reaches.
Limit(v) == [wide |-> FALSE, v |-> v]
INT32_MIN_L == Limit(0 - INT32_MAX - 1)
INT32_MAX_L == Limit(INT32_MAX)
LLONG_MIN == [wide |-> TRUE, v |-> 0]
LLONG_MAX == [wide |-> TRUE, v |-> 0]

\* strtonum(word, minval, maxval, &errstr): ok is errstr == NULL.
TooSmall(r, minval) ==
    ~minval.wide /\ ((r.over /\ r.val < 0) \/ r.val < minval.v)
TooLarge(r, maxval) ==
    ~maxval.wide /\ ((r.over /\ r.val > 0) \/ r.val > maxval.v)
Ranged(cs, minval, maxval, r) ==
    IF r.end = 1 \/ CharAt(cs, r.end) # NUL THEN [ok |-> FALSE, val |-> 0]
    ELSE IF TooSmall(r, minval) \/ TooLarge(r, maxval)
    THEN [ok |-> FALSE, val |-> 0]
    ELSE [ok |-> TRUE, val |-> r.val]
strtonum(cs, minval, maxval) == Ranged(cs, minval, maxval, strtoll(cs, 1, 10))

\* inet_pton(AF_INET, word, &addr4): ret 1 and the four bytes, or ret 0.
RECURSIVE inet_pton4(_, _, _, _, _)
Pton4Char(cs, p, octets, cur, saw_digit, ch, d) ==
    IF ch = NUL
    THEN IF saw_digit /\ Len(octets) = 3
         THEN [ret |-> 1, addr |-> Append(octets, cur)]
         ELSE [ret |-> 0, addr |-> <<>>]
    ELSE IF d <= 9
    THEN IF (saw_digit /\ cur = 0) \/ cur * 10 + d > 255
            \/ (~saw_digit /\ Len(octets) = 4)
         THEN [ret |-> 0, addr |-> <<>>]
         ELSE inet_pton4(cs, p + 1, octets, cur * 10 + d, TRUE)
    ELSE IF ch = "." /\ saw_digit /\ Len(octets) < 3
    THEN inet_pton4(cs, p + 1, Append(octets, cur), 0, FALSE)
    ELSE [ret |-> 0, addr |-> <<>>]
inet_pton4(cs, p, octets, cur, saw_digit) ==
    Pton4Char(cs, p, octets, cur, saw_digit, CharAt(cs, p),
              DigitVal(CharAt(cs, p)))

inet_pton(cs) == inet_pton4(cs, 1, <<>>, 0, FALSE)

---------------------------------------------------------------------------
\* The token loops of snmpc_trap.

Bad == [ok |-> FALSE, bytes |-> <<>>, alloc |-> FALSE]

\* case 'd' (base 10) and case 'x' (base 16): the do-while loop filling str.
\* r is what strtoll returned (lval, endstr) and e is endstr[0].
RECURSIVE ByteLoop(_, _, _, _)
\* Mutation: a comma separates tokens too, as in case 'b'.
ByteToken_Comma(cs, tmpstr, base, bytes, r, e) ==
    IF e \notin {" ", "\t", ",", NUL} THEN Bad
    ELSE IF r.end = tmpstr
    THEN IF e # NUL THEN ByteLoop(cs, tmpstr + 1, base, bytes)
         ELSE [ok |-> TRUE, bytes |-> bytes, alloc |-> TRUE]
    ELSE IF r.val < 0 \/ r.val > 255 THEN Bad
    ELSE IF e # NUL
    THEN ByteLoop(cs, r.end + 1, base, Append(bytes, r.val))
    ELSE [ok |-> TRUE, bytes |-> Append(bytes, r.val), alloc |-> TRUE]
ByteToken(cs, tmpstr, base, bytes, r, e) ==
    IF e \notin {" ", "\t", NUL} THEN Bad
    ELSE IF r.end = tmpstr
    THEN IF e # NUL THEN ByteLoop(cs, tmpstr + 1, base, bytes)
         ELSE [ok |-> TRUE, bytes |-> bytes, alloc |-> TRUE]
    ELSE IF r.val < 0 \/ r.val > 255 THEN Bad
    ELSE IF e # NUL
    THEN ByteLoop(cs, r.end + 1, base, Append(bytes, r.val))
    ELSE [ok |-> TRUE, bytes |-> Append(bytes, r.val), alloc |-> TRUE]
ByteParsed(cs, tmpstr, base, bytes, r) ==
    ByteToken(cs, tmpstr, base, bytes, r, CharAt(cs, r.end))
ByteLoop(cs, tmpstr, base, bytes) ==
    ByteParsed(cs, tmpstr, base, bytes, strtoll(cs, tmpstr, base))

Pow2(k) == CASE k = 0 -> 1 [] k = 1 -> 2 [] k = 2 -> 4 [] k = 3 -> 8
             [] k = 4 -> 16 [] k = 5 -> 32 [] k = 6 -> 64 [] OTHER -> 128

\* b | w for a single-bit mask w.
OrBit(b, w) == IF (b \div w) % 2 = 1 THEN b ELSE b + w

\* recallocarray(str, strl, newlen, 1): grown, the new part zero-filled.
Grow(bytes, newlen) ==
    [k \in 1..newlen |-> IF k <= Len(bytes) THEN bytes[k] ELSE 0]

\* Mutation: bits are numbered from the least significant end of a byte.
SetBit_LsbFirst(bytes, lval) ==
    [(IF lval \div 8 >= Len(bytes) THEN Grow(bytes, lval \div 8 + 1) ELSE bytes)
        EXCEPT ![lval \div 8 + 1] = OrBit(@, Pow2(lval % 8))]
\* str[byte] |= 0x80 >> (lval % 8), after growing str to byte + 1 bytes when
\* byte >= strl.
SetBit(bytes, lval) ==
    [(IF lval \div 8 >= Len(bytes) THEN Grow(bytes, lval \div 8 + 1) ELSE bytes)
        EXCEPT ![lval \div 8 + 1] = OrBit(@, Pow2(7 - (lval % 8)))]

\* case 'b': the do-while loop setting bits in str, starting from strl = 0.
\* alloc tells whether recallocarray was reached; r is what strtoll returned
\* and e is endstr[0].
RECURSIVE BitLoop(_, _, _, _)
BitToken(cs, tmpstr, bytes, alloc, r, e) ==
    IF e \notin {" ", "\t", ",", NUL}
    THEN [ok |-> FALSE, bytes |-> <<>>, alloc |-> alloc]
    ELSE IF r.end = tmpstr
    THEN IF e # NUL THEN BitLoop(cs, tmpstr + 1, bytes, alloc)
         ELSE [ok |-> TRUE, bytes |-> bytes, alloc |-> alloc]
    ELSE IF r.val < 0 \/ r.over
    THEN [ok |-> FALSE, bytes |-> <<>>, alloc |-> alloc]
    ELSE IF e # NUL
    THEN BitLoop(cs, r.end + 1, SetBit(bytes, r.val),
                 alloc \/ r.val \div 8 >= Len(bytes))
    ELSE [ok |-> TRUE, bytes |-> SetBit(bytes, r.val),
          alloc |-> alloc \/ r.val \div 8 >= Len(bytes)]
BitParsed(cs, tmpstr, bytes, alloc, r) ==
    BitToken(cs, tmpstr, bytes, alloc, r, CharAt(cs, r.end))
BitLoop(cs, tmpstr, bytes, alloc) ==
    BitParsed(cs, tmpstr, bytes, alloc, strtoll(cs, tmpstr, 10))

\* The value a triple's type and word encode to, before the varbind is
\* appended: status "ok", "bad" (Bad value notation), "oid" (unknown OID
\* value) or "usage" (unknown type).  string tells whether the value goes
\* through str and pastestring.
Value(status, type, value, string, alloc) ==
    [status |-> status, type |-> type, value |-> value, string |-> string,
     alloc |-> alloc]
Failed(status, alloc) == Value(status, "", <<>>, FALSE, alloc)

Num(type, r) ==
    IF r.ok THEN Value("ok", type, <<r.val>>, FALSE, FALSE) ELSE Failed("bad", FALSE)
Octets(r) ==
    IF r.ok THEN Value("ok", "OCTETSTRING", r.bytes, TRUE, r.alloc)
    ELSE Failed("bad", r.alloc)

IpAddr(r) ==
    IF r.ret = 0 THEN Failed("bad", FALSE)
    ELSE Value("ok", "IPADDR", r.addr, FALSE, FALSE)
OidValue(r) ==
    IF r.ret = -1 THEN Failed("oid", FALSE)
    ELSE Value("ok", "OID", r.oid, FALSE, FALSE)

\* The switch on argv[i + 1][0]: c is that character, cs the characters of
\* argv[i + 2].
TrapCase(c, word, cs) ==
    CASE c = "a" -> IpAddr(inet_pton(cs))
      [] c = "b" -> Octets(BitLoop(cs, 1, <<>>, FALSE))
      [] c = "c" -> Num("COUNTER32", strtonum(cs, INT32_MIN_L, INT32_MAX_L))
      [] c = "d" -> Octets(ByteLoop(cs, 1, 10, <<>>))
      [] c \in {"u", "i"} -> Num("INTEGER", strtonum(cs, LLONG_MIN, LLONG_MAX))
      [] c = "n" -> Value("ok", "NULL", <<>>, FALSE, FALSE)
      [] c = "o" -> OidValue(smi_string2oid(word))
      [] c = "s" ->
           Value("ok", "OCTETSTRING", [k \in 1..Len(cs) |-> Ascii(cs[k])],
                 TRUE, TRUE)
      [] c = "t" -> Num("TIMETICKS", strtonum(cs, LLONG_MIN, LLONG_MAX))
      [] c = "x" -> Octets(ByteLoop(cs, 1, 16, <<>>))
      [] OTHER -> Failed("usage", FALSE)

TrapValue(tag, word) == TrapCase(CharAt(Chars(tag), 1), word, Chars(word))

---------------------------------------------------------------------------
\* snmpc_printerror: the message for an error-status.
snmpc_printerror(error) ==
    CASE error = 0 -> "No error, how did I get here?"
      [] error = 1 -> "Response too big"
      [] error = 2 -> "No such object"
      [] error = 3 -> "Bad value"
      [] error = 4 -> "Read only"
      [] error = 5 -> "Generic error"
      [] error = 6 -> "Access denied"
      [] error = 7 -> "Wrong type"
      [] error = 8 -> "Wrong length"
      [] error = 9 -> "Wrong encoding"
      [] error = 10 -> "Wrong value"
      [] error = 11 -> "Can't be created"
      [] error = 12 -> "Inconsistent value"
      [] error = 13 -> "Resource unavailable"
      [] error = 14 -> "Commit failed"
      [] error = 15 -> "Undo faild"
      [] error = 16 -> "Authorization error"
      [] error = 17 -> "Not writable"
      [] error = 18 -> "Inconsistent name"
      [] OTHER -> "Unknown error"

---------------------------------------------------------------------------
\* State.

VARIABLES
    app,                  \* snmp_app->name
    version,              \* int version
    argv,                 \* argv as handed to snmp_app->exec (argv[0] is argv[1] here)
    walk_check_increase,  \* cleared by -Cc
    walk_fallback_oid,    \* cleared by -CI
    walk_include_oid,     \* set by -Ci
    walk_end,             \* -CE endoid; <<>> is bo_n = 0
    non_repeaters,        \* -Cn<num>
    pc,                   \* position in the running command
    oid,                  \* snmpc_walk: the root OID
    loid,                 \* snmpc_walk: cursor copied at the top of the while loop
    noid,                 \* snmpc_walk: OID requested next / scanned last
    n,                    \* snmpc_walk: match count
    varbind,              \* snmpc_walk: number of bindings of the reply not yet
                          \* scanned (0 is varbind == NULL); a binding's content
                          \* is drawn when ber_scanf_elements reads it
    err,                  \* the fatal error the command ended with
    emitted,              \* bindings printed by snmpc_print, in order
    received,             \* bindings scanned by the for loop of snmpc_walk, each
                          \* with its position in its reply
    gets,                 \* GET requests issued by snmpc_walk
    nreq,                 \* GETNEXT/GETBULK requests issued (saturating)
    emptyreplies,         \* whether a GETNEXT/GETBULK reply had no binding
    lastreq,              \* the last request handed to the agent
    reply,                \* envelope of the last reply decoded: error-status,
                          \* error-index, number of bindings
    trap_i,               \* snmpc_trap: i, index of the triple being encoded
    str,                  \* snmpc_trap: char *str: "NULL" or "freed" (dangling)
    pdu,                  \* snmpc_trap: the varbind list built so far
    trapoid,              \* snmpc_trap: the notification OID
    ts,                   \* snmpc_trap: <<>> for the clock, <<uptime>> otherwise
    trapsent              \* traps handed to snmp_trap

cfg == <<app, version, argv, walk_check_increase, walk_fallback_oid,
         walk_include_oid, walk_end, non_repeaters>>
walkv == <<oid, loid, noid, n, varbind>>
obs == <<received, gets, nreq, emptyreplies, lastreq, reply>>
trapv == <<trap_i, str, pdu, trapoid, ts, trapsent>>
vars == <<cfg, pc, walkv, err, emitted, obs, trapv>>

AgentAddr == "agent"

Apps == {"get", "getnext", "walk", "bulkget", "bulkwalk", "trap"}
WalkApps == {"walk", "bulkwalk"}
GetApps == {"get", "getnext", "bulkget"}

NoErr == [kind |-> "none", msg |-> "", name |-> ""]
NoReq == [pdu |-> "none", oids |-> <<>>]
NoReply == [errorstatus |-> -1, errorindex |-> -1, varbinds |-> 0]
Envelope(r, len) ==
    [errorstatus |-> r.errorstatus, errorindex |-> r.errorindex, varbinds |-> len]

argc == Len(argv)

\* Command lines the model starts from.
GetArgvs ==
    { <<AgentAddr>>, <<AgentAddr, "1">>, <<AgentAddr, "1", "1.2">>,
      <<AgentAddr, "bogus">> }
WalkArgvs ==
    { <<>>, <<AgentAddr>>, <<AgentAddr, "1">>, <<AgentAddr, "bogus">>,
      <<AgentAddr, "1", "2">> }
EndOids == { <<>>, <<1, 2>>, <<1, 1, 2>> }

\* (oid, type, value) triples of the trap command.
TrapTriples ==
    { <<"1.1", "a", "1.2.3.4">>, <<"1.1", "a", "1.2">>,
      <<"1.1", "b", "0 7 15">>, <<"1.1", "b", "9">>, <<"1.1", "b", "1,,2">>,
      <<"1.1", "b", "15 0">>, <<"1.1", "b", "3\t3">>,
      <<"1.1", "b", "-1">>, <<"1.1", "b", "z">>, <<"1.1", "b", "">>,
      <<"1.1", "b", "9 -1">>,
      <<"1.1", "c", "5">>, <<"1.1", "c", "-1">>,
      <<"1.1", "c", "2147483648">>, <<"1.1", "c", "z">>,
      <<"1.1", "d", "1 2">>, <<"1.1", "d", "256">>, <<"1.1", "d", "1,2">>,
      <<"1.1", "d", " 3\t4">>,
      <<"1.1", "i", "-7">>, <<"1.1", "i", "z">>, <<"1.1", "u", "5">>,
      <<"1.1", "n", "">>,
      <<"1.2", "o", "1.2">>, <<"1.1", "o", "bogus">>,
      <<"1.2", "s", "ab">>, <<"1.1", "s", "">>,
      <<"1.1", "t", "100">>, <<"1.1", "t", "z">>,
      <<"1.1", "x", "de ad">>, <<"1.1", "x", "a\t0b  7">>, <<"1.1", "x", "de ad, be,ef">>,
      <<"1.1", "x", "zz">>, <<"1.1", "x", "1ff">>, <<"1.1", "x", "ff">>,
      <<"1.1", "q", "5">>, <<"bogus", "i", "5">>, <<"bogus", "c", "z">> }

RECURSIVE Flatten(_)
Flatten(ss) == IF ss = <<>> THEN <<>> ELSE Head(ss) \o Flatten(Tail(ss))

TrapArgvs ==
    { <<AgentAddr>>, <<AgentAddr, "", "1.1", "1.1">>,
      <<AgentAddr, "100", "1.1">>, <<AgentAddr, "z", "1.1">>,
      <<AgentAddr, "-1", "1.1">>, <<AgentAddr, "", "bogus">> }
    \cup { <<AgentAddr, "", "1.1">> \o Flatten(ts3) :
             ts3 \in SeqsUpTo(TrapTriples, MaxTriples) }

\* What the agent can put in a reply.
Bindings == [oid : Oids, eoc : BOOLEAN]
ErrStatuses == {SNMP_ERROR_NOSUCHNAME, UnknownStatus}
\* Replies to GETNEXT/GETBULK: the envelope and the length of the list.
Replies ==
    [errorstatus : {0}, errorindex : {0}, varbinds : 0..MaxBatch]
    \cup [errorstatus : ErrStatuses, errorindex : 0..MaxErrIndex, varbinds : 0..1]
\* Replies to GET: the envelope and the binding list.
GetBindings == [oid : {<<1>>, <<1, 1>>, <<2>>}, eoc : BOOLEAN]
GetReplies ==
    [errorstatus : {0}, errorindex : {0},
     varbinds : SeqsUpTo(GetBindings, MaxBatch)]
    \cup [errorstatus : ErrStatuses, errorindex : 0..MaxErrIndex,
          varbinds : SeqsUpTo(GetBindings, 1)]

\* The strings a read of argv[k - 1] (C index) can yield, k counted in this
\* model's 1-based argv.  argv[argc] is NULL; the word before argv[0] is the
\* command name; anything further is outside the argument vector.
ArgvRead(k) ==
    IF k \in 1..Len(argv) THEN {argv[k]}
    ELSE IF k = 0 THEN {app}
    ELSE IF k = Len(argv) + 1 THEN {"(null)"}
    ELSE {"(garbage)", "(fault)"}

\* Mutation: the error is reported but the command goes on (warnx for errx).
Exit_Continues(kind, msg, name) ==
    /\ pc' = pc
    /\ err' = [kind |-> kind, msg |-> msg, name |-> name]
\* errx(1, ...) / err(1, ...) / snmpc_printerror: message, then exit.
Exit(kind, msg, name) ==
    /\ pc' = "exit"
    /\ err' = [kind |-> kind, msg |-> msg, name |-> name]

\* snmpc_printerror(errorstatus, argv[k - 1]).
ProtocolExit(errorstatus, k) ==
    \E name \in ArgvRead(k) :
        IF name = "(fault)" THEN Exit("crash", "", "")
        ELSE Exit("protocol", snmpc_printerror(errorstatus), name)

Emit(b, phase) == emitted' = Append(emitted, [oid |-> b.oid, phase |-> phase])

\* Mutation: the binding is printed but not counted.
Counted_Not == n' = n
\* n++ after a successful snmpc_print.
Counted == n' = n + 1

---------------------------------------------------------------------------
Init ==
    /\ app \in Apps
    /\ version \in {SNMP_V1, SNMP_V2C}
    /\ argv \in (IF app \in WalkApps THEN WalkArgvs
                 ELSE IF app = "trap" THEN TrapArgvs ELSE GetArgvs)
    /\ walk_check_increase \in (IF app \in WalkApps THEN BOOLEAN ELSE {TRUE})
    /\ walk_include_oid \in (IF app \in WalkApps THEN BOOLEAN ELSE {FALSE})
    /\ walk_fallback_oid \in (IF app = "walk" THEN BOOLEAN ELSE {TRUE})
    /\ walk_end \in (IF app = "walk" THEN EndOids ELSE {<<>>})
    /\ non_repeaters \in (IF app = "bulkget" THEN 0..MaxNonRep ELSE {0})
    /\ pc = "start"
    /\ oid = <<>> /\ loid = <<>> /\ noid = <<>>
    /\ n = 0
    /\ varbind = 0
    /\ err = NoErr
    /\ emitted = <<>>
    /\ received = <<>>
    /\ gets = <<>>
    /\ nreq = 0
    /\ emptyreplies = FALSE
    /\ lastreq = NoReq
    /\ reply = NoReply
    /\ trap_i = 0
    /\ str = "NULL"
    /\ pdu = <<>>
    /\ trapoid = <<>>
    /\ ts = <<>>
    /\ trapsent = <<>>

---------------------------------------------------------------------------
\* Mutation: the session's version is not looked at.
V1Session_Never == FALSE
\* version < SNMP_V2C, the test made before a GETBULK is built.
V1Session == version < SNMP_V2C

\* snmpc_walk, up to the while loop: checks, connect, root OID.
WalkStart ==
    /\ pc = "start"
    /\ app \in WalkApps
    /\ UNCHANGED <<cfg, trapv, loid, n, varbind, emitted, obs>>
    /\ IF app = "bulkwalk" /\ V1Session
       THEN Exit("usage", "Cannot send V2 PDU on V1 session", "")
            /\ UNCHANGED <<oid, noid>>
       ELSE IF argc < 1 \/ argc > 2
       THEN Exit("usage", "usage", "") /\ UNCHANGED <<oid, noid>>
       ELSE \E connected \in BOOLEAN :
            LET oids == IF argc = 1 THEN mib ELSE argv[2]
                r == smi_string2oid(oids)
            IN  IF ~connected
                THEN Exit("transport", app, "") /\ UNCHANGED <<oid, noid>>
                ELSE IF r.ret = -1
                THEN Exit("notation", "Unknown object identifier", oids)
                     /\ UNCHANGED <<oid, noid>>
                ELSE /\ oid' = r.oid
                     /\ noid' = r.oid
                     /\ pc' = IF walk_include_oid THEN "seed" ELSE "iter"
                     /\ err' = err

\* snmpc_walk reads argv[errorindex - 1] with argv not advanced: argv[0] is
\* the agent, argv[1] the OID.
WalkErrorArg(errorindex) == errorindex

\* One GET on the root and the print of its first binding (used by -Ci and
\* by the fallback).  snmpc_print(NULL) is a NULL dereference.
WalkGet(phase, nextpc) ==
    /\ gets' = Append(gets, [phase |-> phase, oid |-> oid])
    /\ lastreq' = [pdu |-> "get", oids |-> <<oid>>]
    /\ UNCHANGED <<cfg, trapv, oid, loid, noid, varbind, received, nreq,
                   emptyreplies>>
    /\ \/ Exit("transport", app, "") /\ UNCHANGED <<n, emitted, reply>>
       \/ \E r \in GetReplies :
            /\ reply' = Envelope(r, Len(r.varbinds))
            /\ IF r.errorstatus # 0
               THEN ProtocolExit(r.errorstatus, WalkErrorArg(r.errorindex))
                    /\ UNCHANGED <<n, emitted>>
               ELSE IF r.varbinds = <<>>
               THEN Exit("crash", "", "") /\ UNCHANGED <<n, emitted>>
               ELSE /\ Emit(Head(r.varbinds), phase)
                    /\ Counted
                    /\ pc' = nextpc
                    /\ err' = err

\* if (walk_include_oid) { ... }
WalkSeed ==
    /\ pc = "seed"
    /\ WalkGet("seed", "iter")

\* Top of the while loop: copy the cursor, one GETNEXT/GETBULK round trip,
\* error-status check.
WalkRequest ==
    /\ pc = "iter"
    /\ loid' = noid
    /\ nreq' = IF nreq < MaxReq THEN nreq + 1 ELSE nreq
    /\ lastreq' = [pdu |-> IF app = "bulkwalk" THEN "getbulk" ELSE "getnext",
                   oids |-> <<noid>>]
    /\ UNCHANGED <<cfg, trapv, oid, noid, n, emitted, received, gets>>
    /\ \/ Exit("transport", app, "") /\ UNCHANGED <<varbind, reply, emptyreplies>>
       \/ /\ n < MaxEmit
          /\ \E r \in Replies :
               /\ reply' = Envelope(r, r.varbinds)
               /\ emptyreplies' =
                      (emptyreplies \/ (r.errorstatus = 0 /\ r.varbinds = 0))
               /\ IF r.errorstatus # 0
                  THEN Exit("protocol", snmpc_printerror(r.errorstatus),
                            smi_oid2string(noid))
                       /\ UNCHANGED varbind
                  ELSE /\ varbind' = r.varbinds
                       /\ pc' = "bind"
                       /\ err' = err

\* The tests of the for loop body on the binding just scanned into noid.
\* Mutation: the end-of-MIB marker is not recognised.
EndOfMib_Ignored(vb) == FALSE
\* value->be_class == BER_CLASS_CONTEXT && value->be_type == BER_TYPE_EOC
EndOfMib(vb) == vb.eoc

\* Mutation: an OID equal to the cursor is fatal too.
NotIncreasing_OrEqual(o) ==
    walk_check_increase /\ ber_oid_cmp(loid, o) \in {-1, 0}
\* Mutation: the sign of the comparison is inverted.
NotIncreasing_Inverted(o) == walk_check_increase /\ ber_oid_cmp(loid, o) = 1
\* walk_check_increase && prev_cmp == -1
NotIncreasing(o) == walk_check_increase /\ ber_oid_cmp(loid, o) = -1

\* Mutation: any successor of the root passes for a member of its subtree.
AtBoundary_SuccessorPasses(o) ==
    ber_oid_cmp(loid, o) = 0 \/ ber_oid_cmp(oid, o) \notin {1, 2}
\* Mutation: the subtree test is left out.
AtBoundary_NoSubtreeTest(o) == ber_oid_cmp(loid, o) = 0
\* prev_cmp == 0 || ber_oid_cmp(&oid, &noid) != 2
AtBoundary(o) == ber_oid_cmp(loid, o) = 0 \/ ber_oid_cmp(oid, o) # 2

\* Mutation: only a successor of the end OID stops the walk, the end OID
\* itself and its descendants do not.
PastEnd_SuccessorOnly(o) == walk_end # <<>> /\ ber_oid_cmp(walk_end, o) = 1
\* walk_end.bo_n != 0 && ber_oid_cmp(&walk_end, &noid) != -1
PastEnd(o) == walk_end # <<>> /\ ber_oid_cmp(walk_end, o) # -1

\* One pass of the for loop over the reply's bindings.
WalkBinding ==
    /\ pc = "bind"
    /\ varbind > 0
    /\ \E vb \in Bindings :
           /\ noid' = vb.oid
           /\ received' = Append(received,
                  [oid |-> vb.oid, eoc |-> vb.eoc,
                   pos |-> reply.varbinds - varbind + 1])
           /\ UNCHANGED <<cfg, trapv, oid, loid, gets, nreq, emptyreplies,
                          lastreq, reply>>
           /\ IF EndOfMib(vb)
              THEN /\ pc' = "fallback"
                   /\ UNCHANGED <<n, varbind, err, emitted>>
              ELSE IF NotIncreasing(vb.oid)
              THEN /\ Exit("increase", "OID not increasing", "")
                   /\ UNCHANGED <<n, varbind, emitted>>
              ELSE IF AtBoundary(vb.oid)
              THEN /\ pc' = "fallback"
                   /\ UNCHANGED <<n, varbind, err, emitted>>
              ELSE IF PastEnd(vb.oid)
              THEN /\ pc' = "fallback"
                   /\ UNCHANGED <<n, varbind, err, emitted>>
              ELSE /\ Emit(vb, "iter")
                   /\ Counted
                   /\ varbind' = varbind - 1
                   /\ UNCHANGED <<pc, err>>

\* Mutation: the next round trip starts while bindings of the reply are
\* still unscanned.
WalkBatchEnd_Early ==
    /\ pc = "bind"
    /\ pc' = "iter"
    /\ UNCHANGED <<cfg, trapv, walkv, err, emitted, obs>>
\* The for loop ran off the end of the list: varbind == NULL, loop again.
WalkBatchEnd ==
    /\ pc = "bind"
    /\ varbind = 0
    /\ pc' = "iter"
    /\ UNCHANGED <<cfg, trapv, walkv, err, emitted, obs>>

\* Mutation: the seed binding does not count; only the bindings scanned by
\* the iteration keep the fallback away.
NeedFallback_SeedNotCounted ==
    walk_fallback_oid /\ (n = 0 \/ (walk_include_oid /\ n = 1))
\* Mutation: the count of emitted bindings is not looked at.
NeedFallback_IgnoresCount == walk_fallback_oid
\* walk_fallback_oid && n == 0
NeedFallback == walk_fallback_oid /\ n = 0

\* if (walk_fallback_oid && n == 0) { ... } and the return.
WalkFallback ==
    /\ pc = "fallback"
    /\ IF NeedFallback
       THEN WalkGet("fallback", "done")
       ELSE /\ pc' = "done"
            /\ UNCHANGED <<cfg, trapv, walkv, err, emitted, obs>>

\* Mutation: argv is read as if it had not been advanced.
GetErrorArg_NoShift(errorindex) == errorindex
\* snmpc_get reads argv[errorindex - 1] after argc--, argv++: the requested
\* OIDs are argv[2..] of this model.
GetErrorArg(errorindex) == errorindex + 1

\* snmpc_get: get, getnext and bulkget are one round trip.
SnmpcGet ==
    /\ pc = "start"
    /\ app \in GetApps
    /\ UNCHANGED <<cfg, trapv, walkv, received, gets, nreq, emptyreplies>>
    /\ IF argc < 2
       THEN Exit("usage", "usage", "") /\ UNCHANGED <<emitted, lastreq, reply>>
       ELSE \E connected \in BOOLEAN :
            LET names == Tail(argv)
                parsed == [i \in 1..Len(names) |-> smi_string2oid(names[i])]
                oids == [i \in 1..Len(names) |-> parsed[i].oid]
                kind == CASE app = "getnext" -> "getnext"
                          [] app = "bulkget" -> "getbulk"
                          [] OTHER -> "get"
            IN  IF ~connected
                THEN Exit("transport", app, "")
                     /\ UNCHANGED <<emitted, lastreq, reply>>
                ELSE IF \E i \in 1..Len(names) : parsed[i].ret = -1
                THEN Exit("notation", "Unknown object identifier", names[1])
                     /\ UNCHANGED <<emitted, lastreq, reply>>
                ELSE IF app = "bulkget" /\ V1Session
                THEN Exit("usage", "Cannot send V2 PDU on V1 session", "")
                     /\ UNCHANGED <<emitted, lastreq, reply>>
                ELSE IF app = "bulkget" /\ non_repeaters > Len(names)
                THEN Exit("usage", "need more objects than -Cn<num>", "")
                     /\ UNCHANGED <<emitted, lastreq, reply>>
                ELSE /\ lastreq' = [pdu |-> kind, oids |-> oids]
                     /\ \/ Exit("transport", app, "")
                           /\ UNCHANGED <<emitted, reply>>
                        \/ \E r \in GetReplies :
                             /\ reply' = Envelope(r, Len(r.varbinds))
                             /\ IF r.errorstatus # 0
                                THEN ProtocolExit(r.errorstatus,
                                                  GetErrorArg(r.errorindex))
                                     /\ UNCHANGED emitted
                                ELSE /\ emitted' =
                                          [i \in 1..Len(r.varbinds) |->
                                              [oid |-> r.varbinds[i].oid,
                                               phase |-> "get"]]
                                     /\ pc' = "done"
                                     /\ err' = err

WalkNext ==
    \/ WalkStart
    \/ WalkSeed
    \/ WalkRequest
    \/ WalkBinding
    \/ WalkBatchEnd
    \/ WalkFallback

\* snmpc_trap up to the for loop: argument count, version, connect, uptime
\* and notification OID.
TrapStart ==
    /\ pc = "start"
    /\ app = "trap"
    /\ UNCHANGED <<cfg, walkv, emitted, obs, trap_i, str, pdu, trapsent>>
    /\ IF argc < 3 \/ argc % 3 # 0
       THEN Exit("usage", "usage", "") /\ UNCHANGED <<trapoid, ts>>
       ELSE IF version = SNMP_V1
       THEN Exit("usage", "trap is not supported for snmp v1", "")
            /\ UNCHANGED <<trapoid, ts>>
       ELSE \E connected \in BOOLEAN :
            LET lval == strtonum(Chars(argv[2]), Limit(0), LLONG_MAX)
                r == smi_string2oid(argv[3])
            IN  IF ~connected
                THEN Exit("transport", app, "") /\ UNCHANGED <<trapoid, ts>>
                ELSE IF argv[2] # "" /\ ~lval.ok
                THEN Exit("notation", "Bad value notation", argv[2])
                     /\ UNCHANGED <<trapoid, ts>>
                ELSE IF r.ret = -1
                THEN Exit("notation", "Invalid oid", argv[3])
                     /\ UNCHANGED <<trapoid, ts>>
                ELSE /\ ts' = IF argv[2] = "" THEN <<>> ELSE <<lval.val>>
                     /\ trapoid' = r.oid
                     /\ pc' = "triple"
                     /\ err' = err

\* What the bytes of a 'b' value can be when recallocarray and free were
\* handed the pointer an earlier triple already freed.
GarbageBytes == { <<>>, <<255>> }

\* One pass of the for loop: argv[i], argv[i + 1], argv[i + 2] after
\* argc -= 3, argv += 3.
TrapAppend(o, v, bytes) ==
    /\ pdu' = Append(pdu, [oid |-> o.oid, type |-> v.type, value |-> bytes])
    /\ str' = IF v.string /\ v.alloc THEN "freed" ELSE str
    /\ trap_i' = trap_i + 3
    /\ UNCHANGED <<pc, err>>

\* Mutation: an unknown type tag is reported as a bad value notation.
TrapFail_NoUsage(name, word, v) ==
    /\ CASE v.status = "oid" ->
              Exit("notation", "Unknown Object Identifier", name)
         [] OTHER ->
              Exit("notation", "Bad value notation (" \o word \o ")", name)
    /\ UNCHANGED <<trap_i, str, pdu>>
\* Mutation: a triple that fails to encode is skipped instead of ending the
\* command.
TrapFail_Continues(name, word, v) ==
    /\ trap_i' = trap_i + 3
    /\ UNCHANGED <<pc, err, str, pdu>>
\* errx/usage of a triple whose value did not encode.
TrapFail(name, word, v) ==
    /\ CASE v.status = "bad" ->
              Exit("notation", "Bad value notation (" \o word \o ")", name)
         [] v.status = "oid" ->
              Exit("notation", "Unknown Object Identifier", name)
         [] OTHER -> Exit("usage", "usage", "")
    /\ UNCHANGED <<trap_i, str, pdu>>

TrapCrash == Exit("crash", "", "") /\ UNCHANGED <<trap_i, str, pdu>>

\* The body of the for loop: o is the triple's OID, v its encoded value, and
\* dangling tells a 'b' triple that finds str freed by an earlier triple.
TrapBody(name, word, o, v, dangling) ==
    IF o.ret = -1
    THEN Exit("notation", "Invalid oid", name) /\ UNCHANGED <<trap_i, str, pdu>>
    ELSE IF v.status # "ok"
    THEN IF dangling /\ v.alloc
         THEN TrapFail(name, word, v) \/ TrapCrash
         ELSE TrapFail(name, word, v)
    ELSE IF dangling
    THEN \/ TrapCrash
         \/ TrapAppend(o, v, v.value)
         \/ \E g \in GarbageBytes : TrapAppend(o, v, g)
    ELSE TrapAppend(o, v, v.value)

TrapTriple ==
    /\ pc = "triple"
    /\ trap_i < argc - 3
    /\ UNCHANGED <<cfg, walkv, emitted, obs, trapoid, ts, trapsent>>
    /\ TrapBody(argv[trap_i + 4], argv[trap_i + 6],
                smi_string2oid(argv[trap_i + 4]),
                TrapValue(argv[trap_i + 5], argv[trap_i + 6]),
                CharAt(Chars(argv[trap_i + 5]), 1) = "b" /\ str = "freed")

\* After the loop: snmp_trap(agent, &ts, &trapoid, pdu); return 0.
TrapSend ==
    /\ pc = "triple"
    /\ trap_i >= argc - 3
    /\ trapsent' = Append(trapsent,
                          [ts |-> ts, trapoid |-> trapoid, varbinds |-> pdu])
    /\ pc' = "done"
    /\ UNCHANGED <<cfg, walkv, err, emitted, obs, trap_i, str, pdu, trapoid, ts>>

Next ==
    \/ WalkStart
    \/ WalkSeed
    \/ WalkRequest
    \/ WalkBinding
    \/ WalkBatchEnd
    \/ WalkFallback
    \/ SnmpcGet
    \/ TrapStart
    \/ TrapTriple
    \/ TrapSend

Spec == Init /\ [][Next]_vars

\* The walk commands with the require-increasing policy on.  snmpc_walk runs
\* on one thread and each of its steps either blocks until the reply (or the
\* timeout) arrives or is local: a step that can be taken is taken.
LiveInit == Init /\ app \in WalkApps /\ walk_check_increase
LiveSpec == LiveInit /\ [][WalkNext]_vars /\ WF_vars(WalkNext)

---------------------------------------------------------------------------
\* Vocabulary of the properties.

Last(s) == s[Len(s)]
Front(s) == SubSeq(s, 1, Len(s) - 1)

\* o is a strict descendant of root: root is a proper prefix of o.
InSubtree(root, o) ==
    /\ Len(root) < Len(o)
    /\ \A i \in 1..Len(root) : o[i] = root[i]

\* Lexicographic order on OIDs, a proper prefix sorting first.
RECURSIVE OidLess(_, _)
OidLess(a, b) ==
    IF b = <<>> THEN FALSE
    ELSE IF a = <<>> THEN TRUE
    ELSE IF a[1] # b[1] THEN a[1] < b[1]
    ELSE OidLess(Tail(a), Tail(b))

InPhase(p) == SelectSeq(emitted, LAMBDA e : e.phase = p)
IterOids == LET it == InPhase("iter") IN [i \in 1..Len(it) |-> it[i].oid]
ReceivedOids == [i \in 1..Len(received) |-> received[i].oid]
FallbackGets == SelectSeq(gets, LAMBDA g : g.phase = "fallback")
Iterating == pc \in {"iter", "bind"}
\* The for loop stopped at the binding scanned last, without printing it.
StoppedAtLast == ~Iterating /\ received # <<>> /\ IterOids = Front(ReceivedOids)

---------------------------------------------------------------------------
\* C1 (as stated): with GETNEXT, no end OID and no end-of-MIB marker in the
\* replies, the iteration ends only at a response outside the root subtree,
\* so the emitted bindings are exactly the responses before the first
\* out-of-subtree OID.
C1_EndsOnlyOutsideSubtree ==
    ( /\ app = "walk"
      /\ walk_end = <<>>
      /\ received # <<>>
      /\ \A i \in 1..Len(received) : ~received[i].eoc
      /\ \/ pc = "fallback"
         \/ pc = "exit" /\ err.kind = "increase" )
    => ( /\ ~InSubtree(oid, Last(received).oid)
         /\ IterOids = Front(ReceivedOids) )

\* C1 (amended): with GETNEXT the walk stops at the first response whose OID
\* is outside the root subtree, and the bindings emitted by the iteration are
\* then exactly the responses received before it, in the order received.  A
\* response inside the subtree can stop the walk earlier; at every point the
\* emitted bindings are all responses received, or all but the last one when
\* that one stopped the walk.
C1_StopsAtFirstOutside ==
    app = "walk" =>
        /\ IterOids = ReceivedOids \/ StoppedAtLast
        /\ \A i \in 1..Len(received) :
              ~InSubtree(oid, received[i].oid)
                  => i = Len(received) /\ StoppedAtLast

C1_Witness ==
    /\ app = "walk"
    /\ pc = "fallback"
    /\ nreq = 3
    /\ Len(received) = 3
    /\ \A i \in 1..3 : received[i].pos = 1
    /\ ~InSubtree(oid, received[3].oid)
    /\ IterOids = <<received[1].oid, received[2].oid>>

---------------------------------------------------------------------------
\* The last response is the first binding of its reply and follows at least
\* one earlier response: the one before it was the last of the previous
\* reply.
ConsecutiveResponses ==
    /\ app = "walk"
    /\ Len(received) >= 2
    /\ Last(received).pos = 1
    /\ ~Last(received).eoc
PrevOid == received[Len(received) - 1].oid
LastOid == Last(received).oid
NoFallbackOutput == InPhase("fallback") = <<>> /\ FallbackGets = <<>>

\* C2 (as stated): with require-increasing on, a GETNEXT response whose OID
\* is the same as, or smaller than, the OID of the previous response makes
\* the walk fail with "OID not increasing".
C2_SameOrSmallerIsFatal ==
    ( /\ ConsecutiveResponses
      /\ walk_check_increase
      /\ ~OidLess(PrevOid, LastOid) )
    => ( pc = "exit" /\ err.kind = "increase" )

\* C2 (amended): with require-increasing on, a GETNEXT response (not the
\* end-of-MIB marker) whose OID is smaller than the OID of the previous
\* response makes the walk fail with "OID not increasing"; one whose OID is
\* the same as the previous response's ends the walk without an error.  In
\* both cases no further binding is emitted.
C2_SmallerIsFatalSameIsQuiet ==
    ( ConsecutiveResponses /\ walk_check_increase )
    => /\ OidLess(LastOid, PrevOid)
            => /\ pc = "exit"
               /\ err = [kind |-> "increase", msg |-> "OID not increasing",
                         name |-> ""]
               /\ StoppedAtLast
               /\ NoFallbackOutput
       /\ LastOid = PrevOid
            => /\ pc \in {"fallback", "done"}
               /\ err = NoErr
               /\ StoppedAtLast
               /\ NoFallbackOutput

C2_Witness ==
    /\ ConsecutiveResponses
    /\ walk_check_increase
    /\ OidLess(LastOid, PrevOid)
    /\ InSubtree(oid, LastOid)
    /\ err.kind = "increase"

---------------------------------------------------------------------------
\* C3: every binding emitted by the iteration of walk or bulkwalk is a strict
\* descendant of the root; a returned OID that is not under the root (also
\* one numerically greater than it) is not emitted and ends the walk.
C3_EmittedUnderRoot ==
    app \in WalkApps =>
        /\ \A i \in 1..Len(IterOids) : InSubtree(oid, IterOids[i])
        /\ \A i \in 1..Len(received) :
              ~InSubtree(oid, received[i].oid)
                  => /\ i = Len(received)
                     /\ ~Iterating
                     /\ Len(IterOids) = Len(received) - 1

C3_Witness ==
    /\ app = "bulkwalk"
    /\ Len(IterOids) >= 1
    /\ OidLess(oid, Last(received).oid)
    /\ ~InSubtree(oid, Last(received).oid)
    /\ ~Last(received).eoc
    /\ Last(received).pos = 2
    /\ pc = "fallback"

---------------------------------------------------------------------------
\* C4: a walk that ends its iteration with nothing emitted and fallback
\* enabled issues exactly one GET on the root and emits at most one binding
\* from it; with fallback disabled, or after at least one emitted binding,
\* no GET follows the iteration.
C4_FallbackGet ==
    app \in WalkApps =>
        LET before == SelectSeq(emitted, LAMBDA e : e.phase # "fallback")
        IN  /\ Len(FallbackGets) <= 1
            /\ Len(InPhase("fallback")) <= Len(FallbackGets)
            /\ \A i \in 1..Len(FallbackGets) : FallbackGets[i].oid = oid
            /\ FallbackGets # <<>>
                 => /\ walk_fallback_oid
                    /\ before = <<>>
                    /\ Last(gets).phase = "fallback"
                    /\ lastreq = [pdu |-> "get", oids |-> <<oid>>]
            /\ pc = "done"
                 => (FallbackGets # <<>> <=> (walk_fallback_oid /\ before = <<>>))

C4_Witness ==
    /\ app \in WalkApps
    /\ pc = "done"
    /\ received # <<>>
    /\ Len(FallbackGets) = 1
    /\ Len(emitted) = 1
    /\ emitted[1].phase = "fallback"

---------------------------------------------------------------------------
\* C5: with require-increasing on, walk and bulkwalk terminate, normally or
\* with a fatal error, whatever the agent replies (repeated, decreasing or
\* out-of-subtree OIDs, or an empty binding list).
C5_WalkTerminates == <>(pc \in {"done", "exit"})

---------------------------------------------------------------------------
\* The OIDs as typed on the command line of get, getnext and bulkget.
RequestedNames == Tail(argv)
ErrorReply == reply.errorstatus > 0

\* C6: in get, getnext and bulkget a reply with a non-zero error-status and an
\* error-index k within 1..n (n OIDs requested) ends the command with the
\* message of that status, naming the k-th requested OID, and nothing of the
\* reply is emitted.
C6_ErrorNamesOid ==
    ( /\ app \in GetApps
      /\ ErrorReply
      /\ reply.errorindex \in 1..Len(RequestedNames) )
    => /\ pc = "exit"
       /\ err = [kind |-> "protocol",
                 msg |-> snmpc_printerror(reply.errorstatus),
                 name |-> RequestedNames[reply.errorindex]]
       /\ Len(lastreq.oids) = Len(RequestedNames)
       /\ emitted = <<>>

C6_Witness ==
    /\ app = "get"
    /\ argv = <<AgentAddr, "1", "1.2">>
    /\ reply = [errorstatus |-> SNMP_ERROR_NOSUCHNAME, errorindex |-> 2,
                varbinds |-> 1]
    /\ pc = "exit"
    /\ err = [kind |-> "protocol", msg |-> "No such object", name |-> "1.2"]

---------------------------------------------------------------------------
\* The reply to a GET-class request of snmpc_get, or to the seed or fallback
\* GET of snmpc_walk, carries an error.
GetClassError ==
    /\ ErrorReply
    /\ lastreq.pdu # "none"
    /\ app \in GetApps \/ (app \in WalkApps /\ lastreq.pdu = "get")
\* The names typed for the OIDs of the last request.
RequestNames ==
    IF app \in GetApps THEN {argv[k] : k \in 2..Len(argv)}
    ELSE IF argc = 1 THEN {mib} ELSE {argv[2]}

\* C7: a reply with a non-zero error-status whose error-index is 0 or greater
\* than the number of requested OIDs is reported generically: the command
\* ends with the protocol error and the name it reports is not read from
\* outside the list of requested OIDs.
C7_OutOfRangeGeneric ==
    ( /\ GetClassError
      /\ reply.errorindex = 0 \/ reply.errorindex > Len(lastreq.oids) )
    => /\ pc = "exit"
       /\ err.kind = "protocol"
       /\ err.name \in RequestNames \cup {""}

---------------------------------------------------------------------------
\* The name typed for the root of the walk.
RootName == IF argc = 1 THEN mib ELSE argv[2]

\* C8: every protocol error of snmpc_walk names the OID requested in the
\* failing round trip: the root when the seed or fallback GET fails with
\* error-index 1, the cursor when a GETNEXT/GETBULK fails; never the agent
\* address.
C8_WalkErrorNamesRequested ==
    ( app \in WalkApps /\ ErrorReply /\ lastreq.pdu # "none" )
    => /\ pc = "exit"
       /\ ( lastreq.pdu = "get" /\ reply.errorindex = 1 )
            => /\ err.kind = "protocol"
               /\ err.name \in {RootName, smi_oid2string(oid)}
       /\ lastreq.pdu # "get"
            => /\ err.kind = "protocol"
               /\ err.name = smi_oid2string(lastreq.oids[1])
       /\ err.name # AgentAddr

---------------------------------------------------------------------------
\* C9: with an end OID configured, every binding emitted by the iteration is
\* strictly less than the end OID, and a received binding that is greater
\* than or equal to it (its descendants included) is not emitted and is the
\* last one scanned: the iteration is over.
C9_EndBound ==
    ( app \in WalkApps /\ walk_end # <<>> )
    => /\ \A i \in 1..Len(IterOids) : OidLess(IterOids[i], walk_end)
       /\ \A i \in 1..Len(received) :
             ~OidLess(received[i].oid, walk_end)
                 => /\ i = Len(received)
                    /\ ~Iterating
                    /\ Len(IterOids) = Len(received) - 1

C9_Witness ==
    /\ walk_end = <<1, 2>>
    /\ oid = <<1>>
    /\ Len(received) = 2
    /\ IterOids = << <<1, 1>> >>
    /\ Last(received).oid = <<1, 2, 1>>
    /\ ~Last(received).eoc
    /\ InSubtree(oid, Last(received).oid)
    /\ pc = "done"
    /\ err = NoErr

---------------------------------------------------------------------------
\* The triples of the trap command line: argv[4..] in threes.
NTriples == (argc - 3) \div 3
TripleEncodes(k) ==
    /\ smi_string2oid(argv[3 * k + 1]).ret = 0
    /\ TrapValue(argv[3 * k + 2], argv[3 * k + 3]).status = "ok"

\* C10: snmpc_trap sends at most one trap and only after every triple was
\* encoded: a sent trap carries one varbind per triple of the command line,
\* in order, and every triple encodes; once the command has failed nothing
\* was sent.
C10_TrapAllOrNothing ==
    app = "trap" =>
        /\ Len(trapsent) <= 1
        /\ trapsent # <<>>
             => /\ pc = "done"
                /\ err = NoErr
                /\ Len(trapsent[1].varbinds) = NTriples
                /\ \A k \in 1..NTriples :
                      /\ TripleEncodes(k)
                      /\ trapsent[1].varbinds[k].oid =
                             smi_string2oid(argv[3 * k + 1]).oid
        /\ pc = "exit" => trapsent = <<>>

C10_Witness ==
    /\ app = "trap"
    /\ pc = "done"
    /\ NTriples = 2
    /\ Len(trapsent) = 1
    /\ Len(trapsent[1].varbinds) = 2
    /\ trapsent[1].varbinds[1].type # trapsent[1].varbinds[2].type

---------------------------------------------------------------------------
\* The k-th triple of the trap command line.
TripleOid(k) == argv[3 * k + 1]
TripleTag(k) == argv[3 * k + 2]
TripleWord(k) == argv[3 * k + 3]
\* The k-th triple was reached and ended the command.
FailedAt(k) == pc = "exit" /\ trapoid # <<>> /\ trap_i = 3 * (k - 1)
BadNotation(k) ==
    [kind |-> "notation",
     msg |-> "Bad value notation (" \o TripleWord(k) \o ")",
     name |-> TripleOid(k)]

\* Hex literals and the bytes their tokens stand for.
HexSpaced == {"de ad", "ff", "a\t0b  7"}
HexComma == {"de ad, be,ef"}
HexBadToken == {"zz", "1ff"}
HexTokens(w) ==
    CASE w = "de ad" -> <<222, 173>>
      [] w = "ff" -> <<255>>
      [] w = "a\t0b  7" -> <<10, 11, 7>>
      [] w = "de ad, be,ef" -> <<222, 173, 190, 239>>

\* The k-th triple is encoded as the octet string bytes, and did not fail.
EncodesOctets(k, bytes) ==
    /\ ~FailedAt(k)
    /\ Len(pdu) >= k
          => pdu[k].type = "OCTETSTRING" /\ pdu[k].value = bytes
\* The k-th triple is never encoded; reaching it ends the command with the
\* bad value notation error.
RejectsLiteral(k) ==
    /\ Len(pdu) < k
    /\ FailedAt(k) => err = BadNotation(k)

---------------------------------------------------------------------------
\* Bit-list literals and the indices they list.
BitLiterals == {"0 7 15", "9", "1,,2", "15 0", "3\t3"}
BitIndices(w) ==
    CASE w = "0 7 15" -> {0, 7, 15}
      [] w = "9" -> {9}
      [] w = "1,,2" -> {1, 2}
      [] w = "15 0" -> {0, 15}
      [] w = "3\t3" -> {3}

MaxOf(S) == CHOOSE m \in S : \A i \in S : i <= m
\* 0x80 >> b
Mask(b) ==
    CASE b = 0 -> 128 [] b = 1 -> 64 [] b = 2 -> 32 [] b = 3 -> 16
      [] b = 4 -> 8 [] b = 5 -> 4 [] b = 6 -> 2 [] b = 7 -> 1
\* The byte at offset j with bit Mask(b) set exactly for 8 * j + b in S,
\* summed from bit b on.
RECURSIVE ByteOf(_, _, _)
ByteOf(S, j, b) ==
    IF b > 7 THEN 0
    ELSE (IF 8 * j + b \in S THEN Mask(b) ELSE 0) + ByteOf(S, j, b + 1)
ExpectedBits(S) == [j \in 1..(MaxOf(S) \div 8 + 1) |-> ByteOf(S, j - 1, 0)]

\* No triple before the k-th has a string value (tags b, d, s, x).
FirstStringTriple(k) ==
    \A j \in 1..(k - 1) : TripleTag(j) \notin {"b", "d", "s", "x"}

\* C12: for tag b as the first string-valued triple and a non-empty list of
\* bit indices separated by spaces, tabs or commas, the octet string has
\* floor(max index / 8) + 1 bytes and bit 0x80 >> (i mod 8) of byte
\* floor(i / 8) is set exactly for the indices i of the list; [0, 7, 15]
\* gives 0x81 0x01.
C12_BitsEncoding ==
    app = "trap" =>
        /\ ExpectedBits({0, 7, 15}) = <<129, 1>>
        /\ \A k \in 1..NTriples :
              ( /\ TripleTag(k) = "b"
                /\ TripleWord(k) \in BitLiterals
                /\ FirstStringTriple(k) )
              => EncodesOctets(k, ExpectedBits(BitIndices(TripleWord(k))))

C12_Witness ==
    /\ app = "trap"
    /\ NTriples = 2
    /\ TripleTag(1) = "c"
    /\ TripleTag(2) = "b" /\ TripleWord(2) = "0 7 15"
    /\ Len(trapsent) = 1
    /\ trapsent[1].varbinds[2].type = "OCTETSTRING"
    /\ trapsent[1].varbinds[2].value = <<129, 1>>

---------------------------------------------------------------------------
\* A reply with one binding.
Single(o) == [oid |-> o, eoc |-> FALSE, pos |-> 1]
\* The walk of root 1.1 (the image of 1.3.6.1.2.1.1) without the seed GET,
\* whose GETNEXT replies were 1.1.1, 1.1.2 and then 1.2.1, outside the
\* subtree, and nothing else.
ThreeReplies ==
    /\ app = "walk"
    /\ ~walk_include_oid
    /\ oid = <<1, 1>>
    /\ received = <<Single(<<1, 1, 1>>), Single(<<1, 1, 2>>), Single(<<1, 2, 1>>)>>
    /\ ~emptyreplies
    /\ pc \in {"fallback", "done"}

\* C13: in snmpc_walk the match count n equals the number of bindings emitted
\* so far (seed, iteration and fallback bindings each counted once); for the
\* root and the three GETNEXT replies of the scenario exactly three requests
\* are issued, two bindings are emitted and n = 2.
C13_MatchCount ==
    app \in WalkApps =>
        /\ n = Len(emitted)
        /\ ThreeReplies
              => /\ nreq = 3
                 /\ gets = <<>>
                 /\ IterOids = << <<1, 1, 1>>, <<1, 1, 2>> >>
                 /\ Len(emitted) = 2
                 /\ n = 2

C13_Witness ==
    /\ ThreeReplies
    /\ pc = "done"
    /\ n = 2
    /\ nreq = 3

---------------------------------------------------------------------------
V2Error == [kind |-> "usage", msg |-> "Cannot send V2 PDU on V1 session",
            name |-> ""]
\* The command has ended with an error.
EndedInError == pc = "exit" /\ err.kind # "none"
NothingRequested == lastreq = NoReq /\ nreq = 0 /\ gets = <<>>

\* C14: bulkget or bulkwalk on a version 1 session, and a bulkget whose
\* non-repeaters exceeds the number of requested OIDs, end with an error
\* before any GETBULK (or any other request) is sent; a trap on version 1
\* ends before any trap is sent.
C14_RefusedBeforeSending ==
    /\ ( app \in {"bulkget", "bulkwalk"} /\ version < SNMP_V2C )
         => /\ NothingRequested
            /\ emitted = <<>>
            /\ pc = "start" \/ EndedInError
            /\ ( app = "bulkwalk" /\ pc # "start" ) => err = V2Error
    /\ ( app = "bulkget" /\ non_repeaters > Len(RequestedNames) )
         => /\ NothingRequested
            /\ emitted = <<>>
            /\ pc = "start" \/ EndedInError
    /\ ( app = "trap" /\ version = SNMP_V1 )
         => /\ trapsent = <<>>
            /\ pdu = <<>>
            /\ pc = "start" \/ EndedInError

C14_Witness ==
    /\ app = "bulkget"
    /\ version = SNMP_V1
    /\ argv = <<AgentAddr, "1", "1.2">>
    /\ non_repeaters = 0
    /\ pc = "exit"
    /\ err = V2Error

---------------------------------------------------------------------------
\* A step of the for loop of snmpc_walk: one more binding was scanned.
Scans == Len(received') = Len(received) + 1
Scanned == received'[Len(received')]
\* The OID the request of the current round trip carried.
RequestCursor == lastreq.oids[1]
BelowEnd(o) == walk_end = <<>> \/ OidLess(o, walk_end)
NotEmitted == emitted' = emitted /\ n' = n
EmittedScanned ==
    emitted' = Append(emitted, [oid |-> Scanned.oid, phase |-> "iter"])

\* C15: a returned OID equal to the cursor ends the walk quietly (no error,
\* binding not emitted) whether or not require-increasing is on; a returned
\* OID smaller than the cursor is fatal exactly when require-increasing is
\* on; with the policy off a smaller OID inside the subtree (and below the
\* end OID) is emitted.  The cursor is the OID the request carried.
C15_EqualQuietSmallerFatal ==
    [][ ( Scans /\ ~Scanned.eoc )
        => /\ Scanned.oid = RequestCursor
                => NotEmitted /\ pc' = "fallback" /\ err' = NoErr
           /\ ( OidLess(Scanned.oid, RequestCursor) /\ walk_check_increase )
                => /\ NotEmitted
                   /\ pc' = "exit"
                   /\ err' = [kind |-> "increase", msg |-> "OID not increasing",
                              name |-> ""]
           /\ err'.kind = "increase"
                => walk_check_increase /\ OidLess(Scanned.oid, RequestCursor)
           /\ ( /\ OidLess(Scanned.oid, RequestCursor)
                /\ ~walk_check_increase
                /\ InSubtree(oid, Scanned.oid)
                /\ BelowEnd(Scanned.oid) )
                => EmittedScanned /\ pc' = "bind" /\ err' = NoErr
      ]_vars

C15_Witness ==
    /\ app \in WalkApps
    /\ ~walk_check_increase
    /\ Len(received) = 2
    /\ received[1].pos = 1 /\ received[2].pos = 1
    /\ IterOids = ReceivedOids
    /\ OidLess(IterOids[2], IterOids[1])
    /\ lastreq.oids = <<IterOids[1]>>

---------------------------------------------------------------------------
\* C16: with require-increasing on, every binding is compared against the
\* OID emitted just before it, also inside one batch, so the OIDs emitted by
\* the iteration of walk and bulkwalk are strictly increasing.
C16_EmittedStrictlyIncreasing ==
    ( app \in WalkApps /\ walk_check_increase )
    => \A i \in 1..(Len(IterOids) - 1) : OidLess(IterOids[i], IterOids[i + 1])

---------------------------------------------------------------------------
\* The binding triggers a stop: the end-of-MIB marker, an OID equal to the
\* cursor, outside the root subtree, or at or past the end OID.
Stopper(b) ==
    \/ b.eoc
    \/ b.oid = RequestCursor
    \/ ~InSubtree(oid, b.oid)
    \/ ~BelowEnd(b.oid)
\* A scanned binding was not emitted: the iteration has stopped at it.
StoppedBefore == app \in WalkApps /\ Len(IterOids) < Len(received)
IsPrefixOf(s, t) == Len(s) <= Len(t) /\ SubSeq(t, 1, Len(s)) = s

\* C17: a binding that triggers a stop is not emitted and ends the
\* iteration; from then on no binding of that reply (or any other) is
\* scanned or emitted by the iteration and no GETNEXT/GETBULK request is
\* issued, and what was emitted before stays emitted.
C17_StopEndsBatch ==
    [][ /\ ( Scans /\ Stopper(Scanned) )
             => /\ NotEmitted
                /\ pc' \in {"fallback", "exit"}
                /\ IterOids' = Front(ReceivedOids')
        /\ StoppedBefore
             => /\ received' = received
                /\ nreq' = nreq
                /\ lastreq' = lastreq \/ lastreq'.pdu = "get"
                /\ pc' \notin {"iter", "bind"}
                /\ IterOids' = IterOids
                /\ IsPrefixOf(emitted, emitted')
      ]_vars

C17_Witness ==
    /\ app = "bulkwalk"
    /\ pc = "done"
    /\ nreq = 2
    /\ reply.varbinds = 2
    /\ Len(received) = 3
    /\ received[2].pos = 2
    /\ Last(received).pos = 1
    /\ varbind = 2
    /\ Stopper(Last(received))
    /\ emitted = << [oid |-> received[1].oid, phase |-> "iter"],
                    [oid |-> received[2].oid, phase |-> "iter"] >>

---------------------------------------------------------------------------
\* A step of snmpc_walk that issues a GETNEXT/GETBULK request.
Requests == app \in WalkApps /\ pc = "iter" /\ pc' # "iter"

\* C18 (as stated): the first GETNEXT/GETBULK request of snmpc_walk carries
\* the root OID; each later request is issued only after every binding of the
\* previous reply was scanned and emitted, and carries exactly one OID, the
\* OID of the last binding emitted from that previous reply.
C18_NextRequestFollowsLastBinding ==
    [][ Requests
        => /\ varbind = 0
           /\ IterOids = ReceivedOids
           /\ Len(lastreq'.oids) = 1
           /\ nreq = 0 => lastreq'.oids = <<oid>>
           /\ nreq > 0
                 => /\ reply.varbinds > 0
                    /\ received # <<>>
                    /\ Last(received).pos = reply.varbinds
                    /\ Last(emitted) =
                           [oid |-> Last(received).oid, phase |-> "iter"]
                    /\ lastreq'.oids = <<Last(received).oid>>
      ]_vars

\* C18 (what the code keeps): a request is issued only when every binding of
\* the previous reply was scanned and emitted, and it carries exactly one
\* OID: the root until a binding was emitted, afterwards the OID of the
\* binding emitted last; a reply without bindings leaves that OID as it was.
C18_OneRequestAtATime ==
    [][ Requests
        => /\ varbind = 0
           /\ IterOids = ReceivedOids
           /\ (nreq > 0 /\ reply.varbinds > 0)
                 => /\ received # <<>>
                    /\ Last(received).pos = reply.varbinds
           /\ lastreq'.pdu = (IF app = "bulkwalk" THEN "getbulk" ELSE "getnext")
           /\ Len(lastreq'.oids) = 1
           /\ lastreq'.oids[1] =
                  (IF IterOids = <<>> THEN oid ELSE Last(IterOids))
           /\ nreq = 0 => lastreq'.oids = <<oid>>
      ]_vars

C18_Witness ==
    /\ app = "bulkwalk"
    /\ pc = "bind"
    /\ nreq = 2
    /\ Len(received) = 2
    /\ received[2].pos = 2
    /\ IterOids = ReceivedOids
    /\ lastreq = [pdu |-> "getbulk", oids |-> <<received[2].oid>>]
    /\ received[2].oid # oid
    /\ varbind = reply.varbinds

---------------------------------------------------------------------------
\* The fatal conditions of snmpc_walk and snmpc_get the claim names.
FatalKinds == {"protocol", "transport", "increase"}
\* Such a condition has occurred: an error was reported, or a reply with a
\* non-zero error-status was received.
FatalOccurred == err.kind \in FatalKinds \/ reply.errorstatus > 0
\* No request is issued and no binding is emitted in this step.
NothingFurther ==
    /\ emitted' = emitted
    /\ n' = n
    /\ lastreq' = lastreq
    /\ nreq' = nreq
    /\ gets' = gets
    /\ received' = received
    /\ reply' = reply

\* C19: in snmpc_walk and snmpc_get, once a fatal condition has occurred
\* (non-zero error-status, transport failure, "OID not increasing") no
\* request is issued and no binding is emitted any more; the step in which
\* the condition occurs emits nothing, so no binding of a reply with a
\* non-zero error-status is emitted and what was emitted before stays.
C19_FatalEndsCommand ==
    [][ (app \in (WalkApps \cup GetApps))
        => /\ (FatalOccurred => NothingFurther)
           /\ ((~FatalOccurred /\ FatalOccurred')
                 => (/\ emitted' = emitted
                     /\ n' = n
                     /\ (received' = received \/ err'.kind = "increase")))
           /\ ((reply'.errorstatus > 0)
                 => (err'.kind \in {"protocol", "crash"}))
      ]_vars

C19_Witness ==
    /\ app \in WalkApps
    /\ pc = "exit"
    /\ err.kind = "protocol"
    /\ reply.errorstatus > 0
    /\ nreq = 2
    /\ Len(emitted) = 2
    /\ IterOids = ReceivedOids

---------------------------------------------------------------------------
\* The varbind the k-th triple of the command line encodes to.
TripleVarbind(k) ==
    [oid |-> smi_string2oid(TripleOid(k)).oid,
     type |-> TrapValue(TripleTag(k), TripleWord(k)).type,
     value |-> TrapValue(TripleTag(k), TripleWord(k)).value]
\* The k-th triple is a b triple that follows a string-valued triple.
AfterString(k) == TripleTag(k) = "b" /\ ~FirstStringTriple(k)

\* C20: the varbind list handed to snmp_trap has exactly one varbind per
\* triple of the command line, in input order, repeated OIDs kept: the i-th
\* varbind carries the i-th triple's OID and encoded value.
C20_VarbindsMatchTriples ==
    (app = "trap" /\ trapsent # <<>>) =>
        /\ Len(trapsent[1].varbinds) = NTriples
        /\ \A k \in 1..NTriples : trapsent[1].varbinds[k] = TripleVarbind(k)

\* C20 (what the code keeps): one varbind per triple, in input order, each
\* with its triple's OID; the value is the triple's encoded value except for
\* a b triple that follows a string-valued triple.
C20_VarbindsMatchUnlessStale ==
    (app = "trap" /\ trapsent # <<>>) =>
        /\ Len(trapsent[1].varbinds) = NTriples
        /\ \A k \in 1..NTriples :
              /\ trapsent[1].varbinds[k].oid = TripleVarbind(k).oid
              /\ trapsent[1].varbinds[k].type = TripleVarbind(k).type
              /\ ~AfterString(k)
                    => trapsent[1].varbinds[k] = TripleVarbind(k)

\* Two triples with the same OID sent as two varbinds.
C20_Witness ==
    /\ app = "trap"
    /\ NTriples = 2
    /\ TripleOid(1) = TripleOid(2)
    /\ TripleTag(1) = "x" /\ TripleTag(2) = "c"
    /\ Len(trapsent) = 1
    /\ trapsent[1].varbinds = <<TripleVarbind(1), TripleVarbind(2)>>

\* A b triple after an s triple sent with bytes that are not its encoding.
C20_StaleBits ==
    /\ app = "trap"
    /\ NTriples = 2
    /\ TripleTag(1) = "s" /\ TripleTag(2) = "b"
    /\ TripleWord(2) = "0 7 15"
    /\ Len(trapsent) = 1
    /\ trapsent[1].varbinds[2].value # <<129, 1>>

---------------------------------------------------------------------------
TrapTags == {"a", "b", "c", "d", "i", "n", "o", "s", "t", "u", "x"}
UnknownTag(k) == TripleTag(k) \notin TrapTags
\* (tag, literal) pairs with a number out of range for the tag.
OutOfRange ==
    { <<"c", "2147483648">>, <<"d", "256">>, <<"x", "1ff">>, <<"b", "-1">>,
      <<"b", "9 -1">> }
\* (tag, literal) pairs with a character that is neither a digit of the base
\* nor a separator the tag accepts.
Malformed ==
    { <<"b", "z">>, <<"c", "z">>, <<"d", "1,2">>, <<"x", "zz">>,
      <<"x", "de ad, be,ef">> }
BadLiteral(k) == <<TripleTag(k), TripleWord(k)>> \in OutOfRange \cup Malformed
OidParses(k) == smi_string2oid(TripleOid(k)).ret = 0
UsageError == [kind |-> "usage", msg |-> "usage", name |-> ""]
InvalidOid(k) ==
    [kind |-> "notation", msg |-> "Invalid oid", name |-> TripleOid(k)]

\* C21 (as stated): in snmpc_trap every triple with an unknown type tag, a
\* number out of range for its tag or a malformed token sequence is not
\* encoded, and reaching it ends the command with the "Bad value notation"
\* error naming the triple's OID and literal.
C21_AllBadNotation ==
    app = "trap" =>
        \A k \in 1..NTriples :
            (UnknownTag(k) \/ BadLiteral(k)) => RejectsLiteral(k)

\* C21 (amended): such a triple is never encoded and ends the command when
\* it is reached: with "Invalid oid" when its OID does not parse, otherwise
\* with the usage message for an unknown tag and with "Bad value notation"
\* naming OID and literal for a bad literal, unless it is a b triple after a
\* string-valued triple that fails only after growing the stale buffer,
\* where the process may be aborted instead.
C21_BadTripleEndsCommand ==
    app = "trap" =>
        \A k \in 1..NTriples :
            (UnknownTag(k) \/ BadLiteral(k)) =>
                /\ Len(pdu) < k
                /\ trapsent = <<>>
                /\ FailedAt(k) =>
                      IF ~OidParses(k) THEN err = InvalidOid(k)
                      ELSE IF UnknownTag(k) THEN err = UsageError
                      ELSE \/ err = BadNotation(k)
                           \/ /\ AfterString(k)
                              /\ TripleWord(k) = "9 -1"
                              /\ err.kind = "crash"

C21_Witness ==
    /\ app = "trap"
    /\ NTriples = 2
    /\ TripleEncodes(1)
    /\ TripleTag(2) = "q"
    /\ FailedAt(2)
    /\ Len(pdu) = 1
    /\ err = UsageError

---------------------------------------------------------------------------
\* The for loop of snmpc_trap is about to encode the k-th triple.
AtTriple(k) == pc = "triple" /\ trap_i = 3 * (k - 1)

\* C22: in snmpc_trap a b triple starts from a buffer of its own, not from
\* one an earlier triple freed, so it is never cut short by a fault and,
\* when it encodes, its varbind has the bytes the same triple encodes to
\* alone, whatever triples precede it.
C22_BufferOwnedByTriple ==
    app = "trap" =>
        \A k \in 1..NTriples :
            TripleTag(k) = "b" =>
                /\ AtTriple(k) => str = "NULL"
                /\ FailedAt(k) => err.kind # "crash"
                /\ Len(pdu) >= k
                      => pdu[k].value = TrapValue("b", TripleWord(k)).value

\* What the code keeps: a b triple finds str NULL unless an earlier triple
\* was string-valued, and finds the freed pointer after every d, s or x
\* triple.
C22_StaleAfterString ==
    app = "trap" =>
        \A k \in 1..NTriples :
            (AtTriple(k) /\ TripleTag(k) = "b") =>
                /\ FirstStringTriple(k) => str = "NULL"
                /\ (\E j \in 1..(k - 1) : TripleTag(j) \in {"d", "s", "x"})
                      => str = "freed"

\* A b triple after an x triple that ends in a fault although both triples
\* are well formed.
C22_StaleFault ==
    /\ app = "trap"
    /\ NTriples = 2
    /\ TripleTag(1) = "x" /\ TripleTag(2) = "b"
    /\ TripleWord(2) = "0 7 15"
    /\ FailedAt(2)
    /\ err.kind = "crash"

---------------------------------------------------------------------------
SeedGets == SelectSeq(gets, LAMBDA g : g.phase = "seed")
\* The walk is past the seed GET.
PastSeed == pc \in {"iter", "bind", "fallback", "done"}

\* C23: one snmpc_walk issues at most one GET: with include-starting-oid on
\* the seed GET is the only one, its binding is counted before the
\* iteration, and the fallback GET is never issued, even when the iteration
\* emits nothing; with it off only the fallback GET can be issued.
C23_AtMostOneGet ==
    app \in WalkApps =>
        /\ Len(gets) <= 1
        /\ Len(gets) = Len(SeedGets) + Len(FallbackGets)
        /\ walk_include_oid => FallbackGets = <<>>
        /\ ~walk_include_oid => SeedGets = <<>>
        /\ (walk_include_oid /\ PastSeed)
              => /\ Len(SeedGets) = 1
                 /\ n >= 1
                 /\ emitted # <<>> /\ emitted[1].phase = "seed"

C23_Witness ==
    /\ app \in WalkApps
    /\ walk_include_oid
    /\ walk_fallback_oid
    /\ pc = "done"
    /\ received # <<>>
    /\ IterOids = <<>>
    /\ Len(emitted) = 1
    /\ n = 1
    /\ gets = <<[phase |-> "seed", oid |-> oid]>>

====
